---- MODULE Spec2Model ----
(* Model of the authentication blueprint of ubattery-backend               *)
(* (src/ubattery/blueprints/auth.py) and of the public avatar route of     *)
(* src/ubattery/blueprints/index.py.  One action is one HTTP request:      *)
(* the before_app_request hook followed by the routed view.                *)
EXTENDS Integers, Sequences, FiniteSets, TLC

\* ---------------------------------------------------------------- bounds
MaxClock == 2          \* the wall clock stops ticking here
MaxLogins == 1         \* cap on login_count
MaxHookQueries == 2    \* cap on the hook's queries per cache window
NumWorkers == 2        \* workers that serve logins at the same time

\* ------------------------------------------------------- small input sets
Clients   == {"c1"}                       \* browsers, one cookie jar each
UserNames == {"root", "joe", "ghost"}     \* names a request may submit
Passwords == {1, 2}                       \* passwords a request may submit
FileNames == {"a.png", "missing.png"}     \* avatar names a request may ask
AvatarFiles == {"a.png"}                  \* files present in the folder

\* -------------------------------------------------- messages of login()
ErrCookie   == "cookie fetch failed"
ErrPassword == "account or password incorrect"
ErrBanned   == "user is banned from logging in"
NoError     == ""

None == <<>>     \* Python's None for g.user and for fetchone()

VARIABLES
    users,         \* table users: user_name -> row (absent key: no row)
    session,       \* per client: the signed cookie's dict
    user_cache,    \* SimpleCache: user_name -> (user_name, user_type)
    g_user,        \* g.user of the last request
    hook_did,      \* what the hook did in the last request
    request,       \* the last request: route, client, submitted data
    resp,          \* response of the last request
    logged_out,    \* per client: logged out and not logged in since
    clock,         \* wall clock, in ticks
    hook_queries,  \* per name: hook queries since the cache last lost it
    hook_empty,    \* per name: those of them that found no row
    w_pc,          \* per worker: where its POST /login stands
    w_req,         \* per worker: the request it serves
    w_info,        \* per worker: user_info, the row as it was SELECTed
    w_now          \* per worker: now, taken when the handler started

vars == <<users, session, user_cache, g_user, hook_did, request, resp, logged_out,
          clock,
          hook_queries, hook_empty, w_pc, w_req, w_info, w_now>>

\* the state of the workers that serve interleaved logins
wvars == <<w_pc, w_req, w_info, w_now>>

Workers == 1..NumWorkers

\* ------------------------------------------------------------- passwords
\* werkzeug stores "method$salt$hash"; the hash depends on salt and password
Digest(salt, password) == (salt * 5 + password * 3) % 17

generate_password_hash(salt, password) == <<salt, Digest(salt, password)>>

check_password_hash(pwhash, password) == pwhash[2] = Digest(pwhash[1], password)

\* ------------------------------------------------------------------ time
\* datetime.now().strftime('%Y-%m-%d %H:%M:%S'): truncated to whole seconds
\* (the clock ticks twice a second)
Strftime(t) == t \div 2

\* --------------------------------------------------------------- session
EmptyDict == [k \in {} |-> ""]

DictSet(d, key, value) ==
    [k \in (DOMAIN d) \cup {key} |-> IF k = key THEN value ELSE d[k]]

HasClaim(s) == "user_name" \in DOMAIN s

\* ---------------------------------------------------------------- guards
\* mutant: the guard lets a request without a current user through
login_requiredOpen(gu) == TRUE

\* TRUE: the wrapped view runs; FALSE: abort(403)
login_required(gu) == gu # None

\* mutant: the guard checks only that somebody is logged in
super_user_requiredAnyUser(gu) == gu # None

super_user_required(gu) == gu # None /\ gu[2] = 1

Forbidden == [code |-> 403, status |-> FALSE, msg |-> NoError,
              payload |-> <<>>, file |-> ""]

NotFound == [code |-> 404, status |-> FALSE, msg |-> NoError,
             payload |-> <<>>, file |-> ""]

Json(status, msg, payload) ==
    [code |-> 200, status |-> status, msg |-> msg,
     payload |-> payload, file |-> ""]

\* mutant: a missing file is answered with an empty 200
SendFileBlind(f) ==
    [code |-> 200, status |-> TRUE, msg |-> NoError,
     payload |-> <<>>, file |-> IF f \in AvatarFiles THEN f ELSE ""]

SendFile(f) ==
    IF f \in AvatarFiles
    THEN [code |-> 200, status |-> TRUE, msg |-> NoError,
          payload |-> <<>>, file |-> f]
    ELSE NotFound

\* ------------------------------------------------- identity-loading hook
\* mutant: the hook stores whatever fetchone() returned, None included
load_logged_in_userStoreNone(s, cache, tbl) ==
    IF ~HasClaim(s)
    THEN [user |-> None, cache |-> cache, queried |-> FALSE]
    ELSE LET user_name == s["user_name"] IN
         IF user_name \in DOMAIN cache /\ cache[user_name] # None
         THEN [user |-> cache[user_name], cache |-> cache, queried |-> FALSE]
         ELSE LET row == IF user_name \in DOMAIN tbl
                         THEN <<tbl[user_name].user_name,
                                tbl[user_name].user_type>>
                         ELSE None
              IN  [user |-> row,
                   cache |-> DictSet(cache, user_name, row),
                   queried |-> TRUE]

\* mutant: the hook refreshes the cached record from the row on every request
load_logged_in_userRefresh(s, cache, tbl) ==
    IF ~HasClaim(s)
    THEN [user |-> None, cache |-> cache, queried |-> FALSE]
    ELSE LET user_name == s["user_name"] IN
         IF user_name \in DOMAIN tbl
         THEN LET row == <<tbl[user_name].user_name,
                           tbl[user_name].user_type>> IN
              [user |-> row,
               cache |-> DictSet(cache, user_name, row),
               queried |-> user_name \notin DOMAIN cache]
         ELSE IF user_name \in DOMAIN cache
              THEN [user |-> cache[user_name], cache |-> cache,
                    queried |-> FALSE]
              ELSE [user |-> None, cache |-> cache, queried |-> TRUE]

\* mutant: the hook's query skips disabled accounts
load_logged_in_userEnabledOnly(s, cache, tbl) ==
    IF ~HasClaim(s)
    THEN [user |-> None, cache |-> cache, queried |-> FALSE]
    ELSE LET user_name == s["user_name"] IN
         IF user_name \in DOMAIN cache
         THEN [user |-> cache[user_name], cache |-> cache, queried |-> FALSE]
         ELSE IF user_name \in DOMAIN tbl /\ tbl[user_name].user_status # 0
              THEN LET row == <<tbl[user_name].user_name,
                                tbl[user_name].user_type>> IN
                   [user |-> row,
                    cache |-> DictSet(cache, user_name, row),
                    queried |-> TRUE]
              ELSE [user |-> None, cache |-> cache, queried |-> TRUE]

\* mutant: the hook never stores what it fetched
load_logged_in_userNoStore(s, cache, tbl) ==
    IF ~HasClaim(s)
    THEN [user |-> None, cache |-> cache, queried |-> FALSE]
    ELSE LET user_name == s["user_name"] IN
         IF user_name \in DOMAIN cache
         THEN [user |-> cache[user_name], cache |-> cache, queried |-> FALSE]
         ELSE IF user_name \in DOMAIN tbl
              THEN [user |-> <<tbl[user_name].user_name,
                              tbl[user_name].user_type>>,
                    cache |-> cache, queried |-> TRUE]
              ELSE [user |-> None, cache |-> cache, queried |-> TRUE]

\* result: g.user, the cache afterwards, whether the database was queried
load_logged_in_user(s, cache, tbl) ==
    IF ~HasClaim(s)
    THEN [user |-> None, cache |-> cache, queried |-> FALSE]
    ELSE LET user_name == s["user_name"] IN
         IF user_name \in DOMAIN cache
         THEN [user |-> cache[user_name], cache |-> cache, queried |-> FALSE]
         ELSE IF user_name \in DOMAIN tbl
              THEN LET row == <<tbl[user_name].user_name,
                                tbl[user_name].user_type>> IN
                   [user |-> row,
                    cache |-> DictSet(cache, user_name, row),
                    queried |-> TRUE]
              ELSE [user |-> None, cache |-> cache, queried |-> TRUE]

\* ghost bookkeeping of the hook's queries, per cache window of a name
CountQueries(s, h, count) ==
    IF h.queried
    THEN [count EXCEPT ![s["user_name"]] = @ + 1]
    ELSE count

CountEmpty(s, h, count) ==
    IF h.queried /\ h.user = None
    THEN [count EXCEPT ![s["user_name"]] = @ + 1]
    ELSE count

\* ghost: the branch load_logged_in_user took
HookDid(s, h) ==
    IF ~HasClaim(s) THEN "no claim"
    ELSE IF h.queried THEN "query" ELSE "cache hit"

Request(route, c, data) == [route |-> route, client |-> c, data |-> data]

\* before_app_request: the hook runs in front of every view
BeforeRequest(c, h) ==
    /\ h.queried => hook_queries[session[c]["user_name"]] < MaxHookQueries
    /\ g_user' = h.user
    /\ hook_did' = HookDid(session[c], h)
    /\ user_cache' = h.cache
    /\ hook_queries' = CountQueries(session[c], h, hook_queries)
    /\ hook_empty' = CountEmpty(session[c], h, hook_empty)

\* ----------------------------------------------------------------- login
\* mutant: the read path forgets the status check
LoginGetErrorNoStatus(tbl, user_name) ==
    IF user_name \notin DOMAIN tbl THEN ErrCookie
    ELSE NoError

\* the error chosen by the read path (GET), NoError when there is none
LoginGetError(tbl, user_name) ==
    IF user_name \notin DOMAIN tbl THEN ErrCookie
    ELSE IF tbl[user_name].user_status = 0 THEN ErrBanned
    ELSE NoError

\* mutant: the credential path checks the status before the password
LoginPostErrorStatusFirst(tbl, user_name, password) ==
    IF user_name \notin DOMAIN tbl THEN ErrPassword
    ELSE IF tbl[user_name].user_status = 0 THEN ErrBanned
    ELSE IF ~check_password_hash(tbl[user_name].password, password)
         THEN ErrPassword
    ELSE NoError

\* mutant: the credential path forgets the status check
LoginPostErrorNoStatus(tbl, user_name, password) ==
    IF user_name \notin DOMAIN tbl THEN ErrPassword
    ELSE IF ~check_password_hash(tbl[user_name].password, password)
         THEN ErrPassword
    ELSE NoError

\* mutant: the credential path tells an unknown name from a wrong password
LoginPostErrorRevealing(tbl, user_name, password) ==
    IF user_name \notin DOMAIN tbl THEN ErrCookie
    ELSE IF ~check_password_hash(tbl[user_name].password, password)
         THEN ErrPassword
    ELSE IF tbl[user_name].user_status = 0 THEN ErrBanned
    ELSE NoError

\* the error chosen by the credential path (POST)
LoginPostError(tbl, user_name, password) ==
    IF user_name \notin DOMAIN tbl THEN ErrPassword
    ELSE IF ~check_password_hash(tbl[user_name].password, password)
         THEN ErrPassword
    ELSE IF tbl[user_name].user_status = 0 THEN ErrBanned
    ELSE NoError

\* mutant: the UPDATE refreshes the time but not the counter
UpdateLoginNoCount(tbl, user_name, now) ==
    [tbl EXCEPT ![user_name] = [@ EXCEPT !.last_login_time = now]]

\* UPDATE users SET last_login_time = now, login_count = login_count + 1
UpdateLogin(tbl, user_name, now) ==
    [tbl EXCEPT ![user_name] =
        [@ EXCEPT !.last_login_time = now, !.login_count = @ + 1]]

\* mutant: no session.clear(), and the user type is stored as well
LoginSessionKeep(s, user_info) ==
    DictSet(DictSet(s, "user_name", user_info.user_name),
            "user_type", user_info.user_type)

\* session.clear(); session['user_name'] = user_info[2]
LoginSession(s, user_info) == DictSet(EmptyDict, "user_name", user_info.user_name)

\* the payload of a successful login, from the row as it was SELECTed
LoginPayload(user_info) ==
    <<user_info.user_name, user_info.user_type, user_info.avatar_name,
      user_info.last_login_time>>

\* what login() answers on the credential path
LoginPostResponse(tbl, user_name, password) ==
    LET error == LoginPostError(tbl, user_name, password) IN
    IF error # NoError
    THEN Json(FALSE, error, <<>>)
    ELSE Json(TRUE, NoError, LoginPayload(tbl[user_name]))

\* mutant: the read path drops a cookie it cannot accept
LoginGetClearOnError(c) ==
    LET h == load_logged_in_user(session[c], user_cache, users)
        s == session[c]
    IN  /\ BeforeRequest(c, h)
        /\ request' = Request("GET /login", c, <<>>)
        /\ UNCHANGED wvars
        /\ UNCHANGED <<users, clock, logged_out>>
        /\ IF ~HasClaim(s)
           THEN /\ resp' = Json(FALSE, NoError, <<>>)
                /\ UNCHANGED session
           ELSE LET user_name == s["user_name"]
                    error == LoginGetError(users, user_name)
                IN  IF error # NoError
                    THEN /\ resp' = Json(FALSE, error, <<>>)
                         /\ session' = [session EXCEPT ![c] = EmptyDict]
                    ELSE /\ session' = [session EXCEPT
                                ![c] = LoginSession(s, users[user_name])]
                         /\ resp' = Json(TRUE, NoError,
                                         LoginPayload(users[user_name]))

\* mutant: the read path refreshes last_login_time like the credential path
LoginGetTouch(c) ==
    LET h == load_logged_in_user(session[c], user_cache, users)
        s == session[c]
    IN  /\ BeforeRequest(c, h)
        /\ request' = Request("GET /login", c, <<>>)
        /\ UNCHANGED wvars
        /\ UNCHANGED <<clock, logged_out>>
        /\ IF ~HasClaim(s)
           THEN /\ resp' = Json(FALSE, NoError, <<>>)
                /\ UNCHANGED <<session, users>>
           ELSE LET user_name == s["user_name"]
                    error == LoginGetError(users, user_name)
                IN  IF error # NoError
                    THEN /\ resp' = Json(FALSE, error, <<>>)
                         /\ UNCHANGED <<session, users>>
                    ELSE /\ users' = [users EXCEPT
                                ![user_name].last_login_time = Strftime(clock)]
                         /\ session' = [session EXCEPT
                                ![c] = LoginSession(s, users[user_name])]
                         /\ resp' = Json(TRUE, NoError,
                                         LoginPayload(users[user_name]))

\* GET /login
LoginGet(c) ==
    LET h == load_logged_in_user(session[c], user_cache, users)
        s == session[c]
    IN  /\ BeforeRequest(c, h)
        /\ request' = Request("GET /login", c, <<>>)
        /\ UNCHANGED wvars
        /\ UNCHANGED <<users, clock, logged_out>>
        /\ IF ~HasClaim(s)
           THEN /\ resp' = Json(FALSE, NoError, <<>>)
                /\ UNCHANGED session
           ELSE LET user_name == s["user_name"]
                    error == LoginGetError(users, user_name)
                IN  IF error # NoError
                    THEN /\ resp' = Json(FALSE, error, <<>>)
                         /\ UNCHANGED session
                    ELSE /\ session' = [session EXCEPT
                                ![c] = LoginSession(s, users[user_name])]
                         /\ resp' = Json(TRUE, NoError,
                                         LoginPayload(users[user_name]))

\* mutant: the session is written before the credentials are checked
LoginPostEager(c, user_name, password) ==
    LET h == load_logged_in_user(session[c], user_cache, users)
        s == session[c]
        now == Strftime(clock)
        error == LoginPostError(users, user_name, password)
    IN  /\ BeforeRequest(c, h)
        /\ request' = Request("POST /login", c, <<user_name, password>>)
        /\ UNCHANGED wvars
        /\ UNCHANGED clock
        /\ resp' = LoginPostResponse(users, user_name, password)
        /\ session' = [session EXCEPT
                        ![c] = DictSet(EmptyDict, "user_name", user_name)]
        /\ IF error # NoError
           THEN UNCHANGED <<users, logged_out>>
           ELSE /\ users[user_name].login_count < MaxLogins
                /\ users' = UpdateLogin(users, user_name, now)
                /\ logged_out' = [logged_out EXCEPT ![c] = FALSE]

\* POST /login with {userName, password}
LoginPost(c, user_name, password) ==
    LET h == load_logged_in_user(session[c], user_cache, users)
        s == session[c]
        now == Strftime(clock)
        error == LoginPostError(users, user_name, password)
    IN  /\ BeforeRequest(c, h)
        /\ request' = Request("POST /login", c, <<user_name, password>>)
        /\ UNCHANGED wvars
        /\ UNCHANGED clock
        /\ resp' = LoginPostResponse(users, user_name, password)
        /\ IF error # NoError
           THEN UNCHANGED <<users, session, logged_out>>
           ELSE /\ users[user_name].login_count < MaxLogins
                /\ users' = UpdateLogin(users, user_name, now)
                /\ session' = [session EXCEPT
                                ![c] = LoginSession(s, users[user_name])]
                /\ logged_out' = [logged_out EXCEPT ![c] = FALSE]

\* ---------------------------------------------------------------- logout
\* mutant: logout answers but leaves the session alone
logoutKeep(s) == s

\* the body of logout(): session.clear()
logout(s) == EmptyDict

\* GET /logout, behind login_required
Logout(c) ==
    LET h == load_logged_in_user(session[c], user_cache, users) IN
    /\ BeforeRequest(c, h)
    /\ request' = Request("GET /logout", c, <<>>)
    /\ UNCHANGED wvars
    /\ UNCHANGED <<users, clock>>
    /\ IF ~login_required(h.user)
       THEN /\ resp' = Forbidden
            /\ UNCHANGED <<session, logged_out>>
       ELSE /\ session' = [session EXCEPT ![c] = logout(session[c])]
            /\ logged_out' = [logged_out EXCEPT ![c] = TRUE]
            /\ resp' = Json(TRUE, NoError, <<>>)

\* --------------------------------------------------------------- avatars
\* GET /media/avatars/<filename> of the auth blueprint, behind login_required
AuthGetAvatar(c, filename) ==
    LET h == load_logged_in_user(session[c], user_cache, users) IN
    /\ BeforeRequest(c, h)
    /\ request' = Request("GET /media/avatars (auth)", c, <<filename>>)
    /\ UNCHANGED wvars
    /\ UNCHANGED <<users, clock, session, logged_out>>
    /\ resp' = IF ~login_required(h.user) THEN Forbidden
               ELSE SendFile(filename)

\* GET /media/avatars/<filename> of the index blueprint, no guard
IndexGetAvatar(c, filename) ==
    LET h == load_logged_in_user(session[c], user_cache, users) IN
    /\ BeforeRequest(c, h)
    /\ request' = Request("GET /media/avatars (index)", c, <<filename>>)
    /\ UNCHANGED wvars
    /\ UNCHANGED <<users, clock, session, logged_out>>
    /\ resp' = SendFile(filename)

\* a view behind super_user_required; the view itself only answers
SuperView(c) ==
    LET h == load_logged_in_user(session[c], user_cache, users) IN
    /\ BeforeRequest(c, h)
    /\ request' = Request("GET /super", c, <<>>)
    /\ UNCHANGED wvars
    /\ UNCHANGED <<users, clock, session, logged_out>>
    /\ resp' = IF ~super_user_required(h.user) THEN Forbidden
               ELSE Json(TRUE, "super view ran", <<>>)

\* ----------------------------------------------------------- environment
DictDel(d, key) == [k \in (DOMAIN d) \ {key} |-> d[k]]

\* time passes
Tick ==
    /\ UNCHANGED wvars
    /\ clock < MaxClock
    /\ clock' = clock + 1
    /\ UNCHANGED <<users, session, user_cache, g_user, hook_did, request, resp,
                   logged_out,
                   hook_queries, hook_empty>>

\* SimpleCache drops an entry whose timeout has passed
CacheExpire(user_name) ==
    /\ UNCHANGED wvars
    /\ user_name \in DOMAIN user_cache
    /\ user_cache' = DictDel(user_cache, user_name)
    /\ hook_queries' = [hook_queries EXCEPT ![user_name] = 0]
    /\ hook_empty' = [hook_empty EXCEPT ![user_name] = 0]
    /\ UNCHANGED <<users, session, g_user, hook_did, request, resp, clock, logged_out>>

\* the cache is emptied (SimpleCache.clear, or the process restarts)
CacheClear ==
    /\ UNCHANGED wvars
    /\ user_cache' = EmptyDict
    /\ hook_queries' = [u \in UserNames |-> 0]
    /\ hook_empty' = [u \in UserNames |-> 0]
    /\ \/ user_cache # EmptyDict
       \/ \E u \in UserNames : hook_queries[u] # 0
    /\ UNCHANGED <<users, session, g_user, hook_did, request, resp, clock, logged_out>>

\* the users table is maintained outside these blueprints
AdminSetStatus(user_name, status) ==
    /\ UNCHANGED wvars
    /\ user_name \in DOMAIN users
    /\ users[user_name].user_status # status
    /\ users' = [users EXCEPT ![user_name].user_status = status]
    /\ UNCHANGED <<session, user_cache, g_user, hook_did, request, resp, clock,
                   logged_out,
                   hook_queries, hook_empty>>

AdminSetType(user_name, type) ==
    /\ UNCHANGED wvars
    /\ user_name \in DOMAIN users
    /\ users[user_name].user_type # type
    /\ users' = [users EXCEPT ![user_name].user_type = type]
    /\ UNCHANGED <<session, user_cache, g_user, hook_did, request, resp, clock,
                   logged_out,
                   hook_queries, hook_empty>>

AdminDeleteUser(user_name) ==
    /\ UNCHANGED wvars
    /\ user_name \in DOMAIN users
    /\ users' = DictDel(users, user_name)
    /\ UNCHANGED <<session, user_cache, g_user, hook_did, request, resp, clock,
                   logged_out,
                   hook_queries, hook_empty>>

\* ------------------------------------------------------- initial state
Row(id, user_name, salt, password, type, status) ==
    [password |-> generate_password_hash(salt, password), id |-> id,
     user_name |-> user_name, user_type |-> type, avatar_name |-> "a.png",
     last_login_time |-> -1, user_status |-> status, login_count |-> 0]

\* the passwords the two accounts were created with
PasswordOf(user_name) == IF user_name = "root" THEN 1 ELSE 2

InitUsers ==
    [u \in {"root", "joe"} |->
        IF u = "root" THEN Row(1, "root", 3, PasswordOf("root"), 1, 1)
                      ELSE Row(2, "joe", 4, PasswordOf("joe"), 2, 1)]

Init ==
    /\ users = InitUsers
    /\ session = [c \in Clients |-> EmptyDict]
    /\ user_cache = EmptyDict
    /\ g_user = None
    /\ hook_did = "no claim"
    /\ request = Request("", "", <<>>)
    /\ resp = Json(FALSE, NoError, <<>>)
    /\ w_pc = [w \in Workers |-> "idle"]
    /\ w_req = [w \in Workers |-> Request("", "", <<>>)]
    /\ w_info = [w \in Workers |-> EmptyDict]
    /\ w_now = [w \in Workers |-> 0]
    /\ logged_out = [c \in Clients |-> FALSE]
    /\ clock = 0
    /\ hook_queries = [u \in UserNames |-> 0]
    /\ hook_empty = [u \in UserNames |-> 0]

\* one worker at a time: every request runs to its end
Next ==
    \/ \E c \in Clients : LoginGet(c)
    \/ \E c \in Clients, u \in UserNames, p \in Passwords : LoginPost(c, u, p)
    \/ \E c \in Clients : Logout(c)
    \/ \E c \in Clients, f \in FileNames : AuthGetAvatar(c, f)
    \/ \E c \in Clients, f \in FileNames : IndexGetAvatar(c, f)
    \/ \E c \in Clients : SuperView(c)
    \/ Tick
    \/ \E u \in UserNames : CacheExpire(u)
    \/ CacheClear
    \/ \E u \in UserNames, st \in {0, 1} : AdminSetStatus(u, st)
    \/ \E u \in UserNames, t \in {1, 2} : AdminSetType(u, t)
    \/ \E u \in UserNames : AdminDeleteUser(u)

Spec == Init /\ [][Next]_vars

\* ------------------------------------------- interleaved POST /login
\* Several workers serve POST /login at once.  A handler is cut where it
\* talks to the database: the SELECT, the UPDATE with its commit, and the
\* rest of the view (session and answer).

\* mutant: the new counter is computed from the row that was SELECTed
CommitLoginFromRead(tbl, user_info, user_name, now) ==
    IF user_name \notin DOMAIN tbl THEN tbl
    ELSE [tbl EXCEPT ![user_name] =
            [@ EXCEPT !.last_login_time = now,
                      !.login_count = user_info.login_count + 1]]

\* the UPDATE ... WHERE user_name = %s and db.commit() on the row as it is
\* now; a name without a row matches nothing
CommitLogin(tbl, user_info, user_name, now) ==
    IF user_name \notin DOMAIN tbl THEN tbl
    ELSE UpdateLogin(tbl, user_name, now)

\* the hook, now, the SELECT and the error checks of a POST /login
WLoginSelect(w, c, user_name, password) ==
    LET h == load_logged_in_user(session[c], user_cache, users)
        error == LoginPostError(users, user_name, password)
    IN  /\ w_pc[w] = "idle"
        /\ BeforeRequest(c, h)
        /\ w_req' = [w_req EXCEPT
                       ![w] = Request("POST /login", c, <<user_name, password>>)]
        /\ w_now' = [w_now EXCEPT ![w] = Strftime(clock)]
        /\ w_info' = [w_info EXCEPT ![w] = IF user_name \in DOMAIN users
                                           THEN users[user_name]
                                           ELSE EmptyDict]
        /\ IF error # NoError
           THEN /\ w_pc' = [w_pc EXCEPT ![w] = "failed"]
                /\ request' = Request("POST /login", c, <<user_name, password>>)
                /\ resp' = Json(FALSE, error, <<>>)
           ELSE /\ w_pc' = [w_pc EXCEPT ![w] = "selected"]
                /\ UNCHANGED <<request, resp>>
        /\ UNCHANGED <<users, session, logged_out, clock>>

\* the UPDATE and the commit
WLoginUpdate(w) ==
    /\ w_pc[w] = "selected"
    /\ users' = CommitLogin(users, w_info[w], w_req[w].data[1], w_now[w])
    /\ w_pc' = [w_pc EXCEPT ![w] = "updated"]
    /\ UNCHANGED <<session, user_cache, g_user, hook_did, request, resp,
                   logged_out, clock, hook_queries, hook_empty,
                   w_req, w_info, w_now>>

\* session.clear(), the claim and the answer, from user_info
WLoginFinish(w) ==
    LET c == w_req[w].client IN
    /\ w_pc[w] = "updated"
    /\ session' = [session EXCEPT ![c] = LoginSession(session[c], w_info[w])]
    /\ logged_out' = [logged_out EXCEPT ![c] = FALSE]
    /\ request' = w_req[w]
    /\ resp' = Json(TRUE, NoError, LoginPayload(w_info[w]))
    /\ w_pc' = [w_pc EXCEPT ![w] = "done"]
    /\ UNCHANGED <<users, user_cache, g_user, hook_did, clock,
                   hook_queries, hook_empty, w_req, w_info, w_now>>

NextWorkers ==
    \/ \E w \in Workers, c \in Clients, u \in UserNames, p \in Passwords :
            WLoginSelect(w, c, u, p)
    \/ \E w \in Workers : WLoginUpdate(w)
    \/ \E w \in Workers : WLoginFinish(w)
    \/ Tick
    \/ \E u \in UserNames, st \in {0, 1} : AdminSetStatus(u, st)

SpecWorkers == Init /\ [][NextWorkers]_vars

\* the step is a request of client c: the hook followed by the view the
\* request is routed to
AnyRequest(c) ==
    LET r == request' IN
    /\ r.client = c
    /\ CASE r.route = "GET /login" -> LoginGet(c)
         [] r.route = "POST /login" -> LoginPost(c, r.data[1], r.data[2])
         [] r.route = "GET /logout" -> Logout(c)
         [] r.route = "GET /media/avatars (auth)" -> AuthGetAvatar(c, r.data[1])
         [] r.route = "GET /media/avatars (index)" -> IndexGetAvatar(c, r.data[1])
         [] r.route = "GET /super" -> SuperView(c)
         [] OTHER -> FALSE

Claim(user_name) == [k \in {"user_name"} |-> user_name]

\* ================================================================ claims

\* C1: a POST /login for an account whose user_status is 0 never sets a
\* session claim; it answers status:false, and with the correct password
\* the answer is the disabled-account message.
C1_DisabledLoginSetsNoClaim ==
    [][\A c \in Clients, u \in UserNames, p \in Passwords :
        (/\ u \in DOMAIN users
         /\ users[u].user_status = 0
         /\ request'.data = <<u, p>>
         /\ LoginPost(c, u, p))
        => /\ resp'.status = FALSE
           /\ session' = session
           /\ (p = PasswordOf(u) => resp' = Json(FALSE, ErrBanned, <<>>))]_vars

\* a disabled account was just refused with its correct password, no claim
C1_Witness ==
    /\ request.route = "POST /login"
    /\ request.data = <<"joe", PasswordOf("joe")>>
    /\ resp = Json(FALSE, ErrBanned, <<>>)
    /\ ~HasClaim(session["c1"])

\* C2: a POST /login with the correct password on an existing, enabled
\* account answers status:true, leaves a session claim equal to the user
\* name, adds exactly 1 to login_count and sets last_login_time to now.
C2_SuccessfulLogin ==
    [][\A c \in Clients, u \in UserNames, p \in Passwords :
        (/\ u \in DOMAIN users
         /\ p = PasswordOf(u)
         /\ users[u].user_status # 0
         /\ request'.data = <<u, p>>
         /\ LoginPost(c, u, p))
        => /\ resp'.status = TRUE
           /\ HasClaim(session'[c])
           /\ session'[c]["user_name"] = u
           /\ users'[u].login_count = users[u].login_count + 1
           /\ users'[u].last_login_time = Strftime(clock)]_vars

\* joe has just logged in during second 1
C2_Witness ==
    /\ request.route = "POST /login"
    /\ request.data = <<"joe", PasswordOf("joe")>>
    /\ resp.status = TRUE
    /\ session["c1"] = Claim("joe")
    /\ "joe" \in DOMAIN users
    /\ users["joe"].login_count = 1
    /\ users["joe"].last_login_time = 1

\* C3: a POST /login for a user name absent from the store answers
\* status:false with the generic message, and that answer is the one an
\* existing user name with a wrong password gets.
C3_UnknownNameNotRevealed ==
    [][\A c \in Clients, u \in UserNames, p \in Passwords :
        (/\ u \notin DOMAIN users
         /\ request'.data = <<u, p>>
         /\ LoginPost(c, u, p))
        => /\ resp' = Json(FALSE, ErrPassword, <<>>)
           /\ \A u2 \in DOMAIN users, p2 \in Passwords :
                p2 # PasswordOf(u2)
                => LoginPostResponse(users, u2, p2) = resp']_vars

\* an unknown name was just refused while other accounts exist
C3_Witness ==
    /\ request.route = "POST /login"
    /\ request.data[1] = "ghost"
    /\ resp = Json(FALSE, ErrPassword, <<>>)
    /\ DOMAIN users = {"root", "joe"}

C5_SuperUserOnly ==
    [][\A c \in Clients :
        (/\ g_user' = None \/ g_user'[2] # 1
         /\ request'.route = "GET /super"
         /\ SuperView(c))
        => resp' = Forbidden]_vars

\* an authenticated user of type 2 was refused
C5_Witness ==
    /\ request.route = "GET /super"
    /\ g_user # None
    /\ g_user[2] # 1
    /\ resp = Forbidden

\* C6: a session without a claim gets one only in a successful POST /login;
\* GET /login, logout, the hook, the avatar routes and failed logins never
\* add a claim to a session that has none.
C6_OnlyLoginAuthenticates ==
    [][\A c \in Clients :
        (~HasClaim(session[c]) /\ HasClaim(session'[c]))
        => /\ request'.route = "POST /login"
           /\ request'.client = c
           /\ resp'.status = TRUE
           /\ \E u \in UserNames, p \in Passwords : LoginPost(c, u, p)]_vars

\* an anonymous session has just become authenticated
C6_Witness ==
    /\ request.route = "POST /login"
    /\ hook_did = "no claim"
    /\ resp.status = TRUE
    /\ HasClaim(session["c1"])

\* C7 as stated: within one cache window the hook issues at most one
\* database query for a user name.
C7_AtMostOneQueryPerWindow ==
    \A u \in UserNames : hook_queries[u] <= 1

\* C7 amended: within one cache window at most one of the hook's queries
\* for a user name returns a record, and none is issued while the record is
\* cached; an invocation that finds the name uncached issues exactly one
\* query (so does the first one after the cache was cleared), and caches
\* the record if the store has one.
C7_OneQueryPerCachedRecord ==
    /\ [](\A u \in UserNames : hook_queries[u] - hook_empty[u] <= 1)
    /\ [][\A c \in Clients :
            (HasClaim(session[c]) /\ AnyRequest(c))
            => LET u == session[c]["user_name"] IN
               /\ hook_queries'[u] = hook_queries[u]
                        + (IF u \in DOMAIN user_cache THEN 0 ELSE 1)
               /\ (u \in DOMAIN users \/ u \in DOMAIN user_cache)
                    => u \in DOMAIN user_cache']_vars

\* a request was served from the cache, one query in the window so far
C7_Witness ==
    /\ hook_did = "cache hit"
    /\ HasClaim(session["c1"])
    /\ hook_queries[session["c1"]["user_name"]] = 1
    /\ hook_empty[session["c1"]["user_name"]] = 0

C9_SessionHoldsOnlyUserName ==
    /\ [](\A c \in Clients :
            session[c] = EmptyDict \/ DOMAIN session[c] = {"user_name"})
    /\ [][\A c \in Clients :
            /\ \A u \in UserNames, p \in Passwords :
                (/\ resp'.status = TRUE
                 /\ request'.data = <<u, p>>
                 /\ LoginPost(c, u, p))
                => session'[c] = Claim(u)
            /\ (/\ resp'.status = TRUE
                /\ request'.route = "GET /login"
                /\ LoginGet(c))
                => session'[c] = Claim(session[c]["user_name"])]_vars

\* a login has replaced the claim of another user
C9_Witness ==
    /\ request.route = "POST /login"
    /\ resp.status = TRUE
    /\ g_user # None
    /\ g_user[1] # request.data[1]
    /\ session["c1"] = Claim(request.data[1])

\* C10: among the requests only a successful POST /login changes the users
\* table, and it changes only login_count and last_login_time of the row
\* that logged in; GET /login, failed logins, logout, the hook and the
\* avatar routes leave every row as it was.
C10_OnlyLoginWritesUsers ==
    [][\A c \in Clients :
        (users' # users /\ AnyRequest(c))
        => /\ request'.route = "POST /login"
           /\ resp'.status = TRUE
           /\ LET u == request'.data[1] IN
              users' = [users EXCEPT
                          ![u].login_count = @ + 1,
                          ![u].last_login_time = users'[u].last_login_time]]_vars

\* a successful GET /login answered from a row it left as the login wrote it
C10_Witness ==
    /\ request.route = "GET /login"
    /\ resp.status = TRUE
    /\ HasClaim(session["c1"])
    /\ session["c1"]["user_name"] \in DOMAIN users
    /\ users[session["c1"]["user_name"]].login_count = 1
    /\ resp.payload[4] = users[session["c1"]["user_name"]].last_login_time

\* C11: GET /login answers status:false without data when the session has
\* no claim; with a claim, status:false and the cookie message when no row
\* exists for it, status:false and the banned message when the row's status
\* is 0; status:true with the user payload only for an existing, enabled
\* account.
C11_ReadPathAnswers ==
    [][\A c \in Clients :
        (request'.route = "GET /login" /\ LoginGet(c))
        => IF ~HasClaim(session[c])
           THEN resp' = Json(FALSE, NoError, <<>>)
           ELSE LET u == session[c]["user_name"] IN
                IF u \notin DOMAIN users
                THEN resp' = Json(FALSE, ErrCookie, <<>>)
                ELSE IF users[u].user_status = 0
                THEN resp' = Json(FALSE, ErrBanned, <<>>)
                ELSE resp' = Json(TRUE, NoError,
                                  <<u, users[u].user_type,
                                    users[u].avatar_name,
                                    users[u].last_login_time>>)]_vars

\* the read path has just refused the claim of a disabled account
C11_Witness ==
    /\ request.route = "GET /login"
    /\ resp = Json(FALSE, ErrBanned, <<>>)
    /\ HasClaim(session["c1"])

C13_HookBranches ==
    /\ [](\A u \in DOMAIN user_cache : user_cache[u] # None)
    /\ [][\A c \in Clients :
            AnyRequest(c)
            => IF ~HasClaim(session[c])
               THEN /\ g_user' = None
                    /\ user_cache' = user_cache
                    /\ hook_queries' = hook_queries
               ELSE LET u == session[c]["user_name"] IN
                    IF u \in DOMAIN user_cache
                    THEN /\ g_user' = user_cache[u]
                         /\ user_cache' = user_cache
                         /\ hook_queries' = hook_queries
                    ELSE /\ hook_queries'[u] = hook_queries[u] + 1
                         /\ IF u \in DOMAIN users
                            THEN /\ g_user' = <<u, users[u].user_type>>
                                 /\ user_cache' = DictSet(user_cache, u, g_user')
                            ELSE /\ g_user' = None
                                 /\ user_cache' = user_cache]_vars

\* the hook queried for a claim without a row and cached nothing
C13_Witness ==
    /\ hook_did = "query"
    /\ g_user = None
    /\ HasClaim(session["c1"])
    /\ session["c1"]["user_name"] \notin DOMAIN user_cache

\* C14: however the logins of several workers for one user name interleave,
\* the row's login_count is the number of those logins whose UPDATE has
\* run: when all are through, it is k higher than at the start.
C14_NoLostIncrement ==
    \A u \in DOMAIN users :
        users[u].login_count =
            Cardinality({w \in Workers :
                /\ w_pc[w] \in {"updated", "done"}
                /\ w_req[w].data[1] = u})

\* both workers SELECTed joe's row before either UPDATE, and both are done
C14_Witness ==
    /\ \A w \in Workers :
        /\ w_pc[w] = "done"
        /\ w_req[w].data[1] = "joe"
        /\ w_info[w].login_count = 0
    /\ users["joe"].login_count = NumWorkers

\* C15: a cache entry is never overwritten or removed by a request or by a
\* change of the users table, only by expiry or clearing; while it is there
\* the hook returns it, so after the stored type changed the current user's
\* type can differ from the stored one.
C15_CacheEntryNeverRefreshed ==
    /\ [][\/ \A u \in DOMAIN user_cache :
                u \in DOMAIN user_cache' /\ user_cache'[u] = user_cache[u]
          \/ CacheClear
          \/ \E u \in UserNames : CacheExpire(u)]_vars
    /\ [][\A c \in Clients :
            (/\ HasClaim(session[c])
             /\ session[c]["user_name"] \in DOMAIN user_cache
             /\ AnyRequest(c))
            => g_user' = user_cache[session[c]["user_name"]]]_vars

\* a request was served from a cached record whose type is not the stored one
C15_Witness ==
    /\ hook_did = "cache hit"
    /\ g_user # None
    /\ g_user[1] \in DOMAIN users
    /\ g_user[1] \in DOMAIN user_cache
    /\ user_cache[g_user[1]] = g_user
    /\ users[g_user[1]].user_type # g_user[2]

\* C16: a login that fails, on either path, leaves the session as it was:
\* a claim that was there stays, an empty session stays empty.
C16_FailedLoginKeepsSession ==
    [][\A c \in Clients :
        (/\ resp'.status = FALSE
         /\ \/ request'.route = "GET /login" /\ LoginGet(c)
            \/ /\ request'.route = "POST /login"
               /\ LoginPost(c, request'.data[1], request'.data[2]))
        => session' = session]_vars

\* a stale cookie was refused by the read path and is still in the session
C16_Witness ==
    /\ request.route = "GET /login"
    /\ resp = Json(FALSE, ErrCookie, <<>>)
    /\ HasClaim(session["c1"])

\* the users table with every user_status turned over
FlipStatus(tbl) ==
    [u \in DOMAIN tbl |-> [tbl[u] EXCEPT !.user_status = 1 - @]]

\* C17: the hook and the guards do not look at user_status: what the hook
\* loads is the same whatever the status, and a session whose account has
\* status 0 still gets through the authenticated-only guard of logout and
\* of the protected avatar route, while GET /login answers it with the
\* banned failure.
C17_GuardsIgnoreStatus ==
    /\ [](\A c \in Clients :
            load_logged_in_user(session[c], user_cache, FlipStatus(users))
                = load_logged_in_user(session[c], user_cache, users))
    /\ [][\A c \in Clients :
            (/\ HasClaim(session[c])
             /\ session[c]["user_name"] \in DOMAIN users
             /\ users[session[c]["user_name"]].user_status = 0)
            => /\ (request'.route = "GET /logout" /\ Logout(c))
                    => resp' = Json(TRUE, NoError, <<>>)
               /\ (/\ request'.route = "GET /media/avatars (auth)"
                   /\ AuthGetAvatar(c, request'.data[1]))
                    => resp' = SendFile(request'.data[1])
               /\ (request'.route = "GET /login" /\ LoginGet(c))
                    => resp' = Json(FALSE, ErrBanned, <<>>)]_vars

\* the protected route served an avatar to the session of a disabled account
C17_Witness ==
    /\ request.route = "GET /media/avatars (auth)"
    /\ resp.file = "a.png"
    /\ HasClaim(session["c1"])
    /\ session["c1"]["user_name"] \in DOMAIN users
    /\ users[session["c1"]["user_name"]].user_status = 0

\* what C18 says of a request of client c whose claim names no row
AbsentUserIsAnonymous(c) ==
    /\ AnyRequest(c) => g_user' = None
    /\ (request'.route = "GET /logout" /\ Logout(c))
        => (resp' = Forbidden /\ session' = session)
    /\ (request'.route = "GET /super" /\ SuperView(c)) => resp' = Forbidden
    /\ session'[c] # session[c]
        => /\ request'.route = "POST /login"
           /\ resp'.status = TRUE
           /\ LoginPost(c, request'.data[1], request'.data[2])

C19_PasswordBeforeStatus ==
    [][\A c \in Clients, u \in UserNames, p \in Passwords :
        (/\ request'.route = "POST /login"
         /\ request'.data = <<u, p>>
         /\ LoginPost(c, u, p))
        => /\ (u \in DOMAIN users /\ users[u].user_status = 0
                    /\ p # PasswordOf(u))
                => resp' = Json(FALSE, ErrPassword, <<>>)
           /\ resp'.msg = ErrBanned
                => (u \in DOMAIN users /\ p = PasswordOf(u))]_vars

\* a disabled account was refused with the generic message for a wrong
\* password
C19_Witness ==
    /\ request.route = "POST /login"
    /\ request.data[1] = "joe"
    /\ request.data[2] # PasswordOf("joe")
    /\ resp = Json(FALSE, ErrPassword, <<>>)
    /\ "joe" \in DOMAIN users
    /\ users["joe"].user_status = 0
    /\ users["joe"].login_count = 1
====
